---- MODULE Spec2Model ----
(***************************************************************************)
(* Realtime disaster dashboard: the Express feed proxy (src/server.js) and *)
(* the browser renderer (src/app.js).                                      *)
(*                                                                         *)
(* JavaScript values are modelled by records of a fixed shape per kind of  *)
(* value.  The string UNDEF stands for the JavaScript value undefined (an  *)
(* absent property), NULL for null.  Texts of the scraped HTML page are    *)
(* sequences of character codes, 0 being a white-space character.          *)
(***************************************************************************)
EXTENDS Integers, Sequences, FiniteSets, TLC

UNDEF == "<undefined>"
NULL == "<null>"

Min(a, b) == IF a < b THEN a ELSE b

\* Array.prototype.slice(0, n)
Slice(s, n) == SubSeq(s, 1, Min(Len(s), n))

(***************************************************************************)
(* Upstream outcomes.  An outcome of one outbound GET is a record          *)
(* [net, body]: net is what the transport did, body what a 2xx reply       *)
(* carried.                                                                *)
(***************************************************************************)
NetKinds == {"ok", "network", "timeout", "non2xx"}

\* axios.get(url, {timeout}): rejects on a network/DNS error, on the
\* timeout and on a status outside 2xx; otherwise resolves with r.data.
AxiosGet(o) ==
  IF o.net = "ok" THEN [threw |-> FALSE, data |-> o.body]
  ELSE [threw |-> TRUE]

\* res.json(...) of the success envelope
Success(source, data) ==
  [status |-> 200, body |-> [ok |-> TRUE, source |-> source, data |-> data]]

\* a failure envelope that also carries a data field
FailureWithData(error) ==
  [status |-> 500, body |-> [ok |-> FALSE, error |-> error, data |-> << >>]]

\* res.status(500).json(...) of the failure envelope
Failure(error) ==
  [status |-> 500, body |-> [ok |-> FALSE, error |-> error]]

(***************************************************************************)
(* 1) /api/earthquakes: pass-through of r.data.                            *)
(* A body is [json, falsy, featuresK, features]: axios parses a JSON body   *)
(* and hands a body that is not JSON on as the raw string (json = FALSE);  *)
(* falsy tells whether the value is falsy in JavaScript (the empty string, *)
(* a JSON null, 0 or false).                                               *)
(***************************************************************************)
EarthquakesTry(o) ==
  LET r == AxiosGet(o)
  IN  IF r.threw THEN [threw |-> TRUE]
      ELSE [threw |-> FALSE, val |-> Success("usgs", r.data)]

EarthquakesRoute(o) ==
  LET t == EarthquakesTry(o)
  IN  IF t.threw THEN Failure("Failed to fetch earthquakes") ELSE t.val

(***************************************************************************)
(* 2) /api/tsunami.  A body is the document as xml2js reads it with        *)
(* explicitArray: false:                                                   *)
(*   k       "reject" (not well-formed: parseStringPromise rejects),       *)
(*           "null" (an empty document parses to null),                    *)
(*           "noFeed" (another root element), "feed"                       *)
(*   entryK  "absent" | "single" | "list": parsed.feed.entry is undefined, *)
(*           one value, or an array of two or more                         *)
(*   entries the entry elements in feed order.                             *)
(* An entry is [empty, id, title, updated, summary, linkK, links]; an      *)
(* element without children, text or attributes parses to the empty        *)
(* string (empty = TRUE).  A link element is [attrs, href]: attrs tells    *)
(* whether it carries attributes (the $ property exists).                  *)
(***************************************************************************)
ParseString(body) ==
  IF body.k = "reject" THEN [threw |-> TRUE]
  ELSE [threw |-> FALSE, val |-> body]

\* parsed.feed && parsed.feed.entry ? (Array.isArray(..) ? .. : [..]) : []
\* (parsed = null throws a TypeError on parsed.feed)
EntriesThrows(parsed) == parsed.k = "null"

Entries(parsed) ==
  IF parsed.k # "feed" \/ parsed.entryK = "absent" THEN << >>
  ELSE IF parsed.entryK = "list" THEN parsed.entries
  ELSE IF parsed.entries[1].empty THEN << >>
  ELSE << parsed.entries[1] >>

\* e.summary && e.summary._ ? e.summary._ : (e.summary || '')
SummaryOf(e) ==
  IF e.empty \/ e.summary.k = "absent" THEN [k |-> "str", text |-> ""]
  ELSE IF e.summary.k = "mixed" /\ e.summary.text # "" THEN [k |-> "str", text |-> e.summary.text]
  ELSE IF e.summary.k = "text" THEN [k |-> "str", text |-> e.summary.text]
  ELSE [k |-> "node", text |-> e.summary.text]

\* e.link[0].$.href on an array whose first element has no $ property
LinkThrows(e) == ~e.empty /\ e.linkK = "list" /\ ~e.links[1].attrs

\* Array.isArray(e.link) ? e.link[0].$.href
\*                       : (e.link && e.link.$ && e.link.$.href) || ''
LinkOf(e) ==
  IF e.empty \/ e.linkK = "absent" THEN ""
  ELSE IF e.linkK = "list" THEN e.links[1].href
  ELSE IF e.links[1].attrs /\ e.links[1].href # UNDEF THEN e.links[1].href
  ELSE ""

Prop(e, v) == IF e.empty THEN UNDEF ELSE v

TsunamiEntry(e) ==
  [id |-> Prop(e, e.id), title |-> Prop(e, e.title), updated |-> Prop(e, e.updated),
   summary |-> SummaryOf(e), link |-> LinkOf(e)]

TsunamiTry(o) ==
  LET r == AxiosGet(o)
  IN  IF r.threw THEN [threw |-> TRUE]
      ELSE LET p == ParseString(r.data)
           IN  IF p.threw \/ EntriesThrows(p.val) THEN [threw |-> TRUE]
               ELSE LET entries == Entries(p.val)
                    IN  IF \E i \in 1..Len(entries) : LinkThrows(entries[i])
                        THEN [threw |-> TRUE]
                        ELSE [threw |-> FALSE,
                              val |-> Success("tsunami.gov",
                                  [n \in 1..Len(entries) |-> TsunamiEntry(entries[n])])]

\* a catch block copied from the earthquake route with its message unchanged
TsunamiRouteCopiedMessage(o) ==
  LET t == TsunamiTry(o)
  IN  IF t.threw THEN Failure("Failed to fetch earthquakes") ELSE t.val

TsunamiRoute(o) ==
  LET t == TsunamiTry(o)
  IN  IF t.threw THEN Failure("Failed to fetch tsunami feed") ELSE t.val

(***************************************************************************)
(* 3) /api/volcanoes.  A body is [k, rows, lis]:                           *)
(*   k     "html": a text, which cheerio reads as a document whatever it   *)
(*         holds; "null": the JSON text null, which axios parses to null   *)
(*         and cheerio.load refuses ("cheerio.load() expects a string")    *)
(*   rows  the elements matched by 'table tr' in document order, each the  *)
(*         sequence of the texts of its td cells (a header row has none)   *)
(*   lis   the texts of the li elements in document order.                 *)
(***************************************************************************)
IsSpace(c) == c = 0

RECURSIVE TrimStart(_)
TrimStart(t) ==
  IF t # << >> /\ IsSpace(Head(t)) THEN TrimStart(Tail(t)) ELSE t

RECURSIVE TrimEnd(_)
TrimEnd(t) ==
  IF t # << >> /\ IsSpace(t[Len(t)]) THEN TrimEnd(SubSeq(t, 1, Len(t) - 1)) ELSE t

\* String.prototype.trim
Trim(t) == TrimEnd(TrimStart(t))

\* String.prototype.substring(0, n)
Substring(t, n) == SubSeq(t, 1, Min(Len(t), n))

VolcanoCap == 8
LiMinLength == 10
NameMaxLength == 60

\* $(tds[k]).text(): the empty string when the row has no such cell
CellText(tds, k) == IF k <= Len(tds) THEN tds[k] ELSE << >>

\* one callback of $('table tr').each
TableRow(eruptions, tds) ==
  IF Len(eruptions) >= VolcanoCap THEN eruptions
  ELSE IF Len(tds) >= 1
       THEN LET name == Trim(CellText(tds, 1))
            IN  IF name = << >> THEN eruptions
                ELSE Append(eruptions, [name |-> name, status |-> Trim(CellText(tds, 2))])
       ELSE eruptions

RECURSIVE ScanTable(_, _)
ScanTable(eruptions, rows) ==
  IF rows = << >> THEN eruptions
  ELSE ScanTable(TableRow(eruptions, Head(rows)), Tail(rows))

\* one callback of $('li').each
ListItem(eruptions, li) ==
  IF Len(eruptions) >= VolcanoCap THEN eruptions
  ELSE LET text == Trim(li)
       IN  IF Len(text) > LiMinLength
           THEN Append(eruptions, [name |-> Substring(text, NameMaxLength), status |-> << >>])
           ELSE eruptions

RECURSIVE ScanList(_, _)
ScanList(eruptions, lis) ==
  IF lis = << >> THEN eruptions
  ELSE ScanList(ListItem(eruptions, Head(lis)), Tail(lis))

\* a fallback that tops the table's entries up from the list items
EruptionsToppedUp(page) ==
  LET fromTable == ScanTable(<< >>, page.rows)
      found == IF Len(fromTable) < VolcanoCap THEN ScanList(fromTable, page.lis) ELSE fromTable
  IN  Slice(found, VolcanoCap)

Eruptions(page) ==
  LET fromTable == ScanTable(<< >>, page.rows)
      found == IF Len(fromTable) = 0 THEN ScanList(fromTable, page.lis) ELSE fromTable
  IN  Slice(found, VolcanoCap)

\* cheerio.load(r.data): throws on null
CheerioLoad(data) ==
  IF data.k = "null" THEN [threw |-> TRUE]
  ELSE [threw |-> FALSE, val |-> data]

VolcanoesTry(o) ==
  LET r == AxiosGet(o)
  IN  IF r.threw THEN [threw |-> TRUE]
      ELSE LET doc == CheerioLoad(r.data)
           IN  IF doc.threw THEN [threw |-> TRUE]
               ELSE [threw |-> FALSE, val |-> Success("gvp", Eruptions(doc.val))]

VolcanoesRoute(o) ==
  LET t == VolcanoesTry(o)
  IN  IF t.threw THEN Failure("Failed to fetch volcano info") ELSE t.val

(***************************************************************************)
(* 4) /api/floods: pass-through of r.data.  The request carries limit: 6;  *)
(* a body is [json, falsy, dataK, data]: dataK tells what the search       *)
(* response's data property is: "absent", "falsy" (present and null, 0,    *)
(* false or the empty string), "array" (of the reports in data) or         *)
(* "object" (any other truthy value).  A report is                         *)
(* [hasFields, title, urlK, urls].                                         *)
(***************************************************************************)
FloodLimit == 6

\* the params of the request; query is the text JSON.stringify gives for
\* { query: { value: 'flood', operator: 'OR' } }
FloodsParams ==
  [appname |-> "rtddr-demo", limit |-> FloodLimit, sort |-> "date:desc",
   query |-> "{\"query\":{\"value\":\"flood\",\"operator\":\"OR\"}}"]

FloodsTry(o) ==
  LET r == AxiosGet(o)
  IN  IF r.threw THEN [threw |-> TRUE]
      ELSE [threw |-> FALSE, val |-> Success("reliefweb", r.data)]

FloodsRoute(o) ==
  LET t == FloodsTry(o)
  IN  IF t.threw THEN Failure("Failed to fetch flood reports") ELSE t.val

\* 5) /api/ping: answers synchronously with the current time
PingRoute(time) == [status |-> 200, body |-> [ok |-> TRUE, time |-> time]]

FeedRoutes == {"earthquakes", "tsunami", "volcanoes", "floods"}

\* the handler registered for a feed route, applied to its upstream outcome
RouteResponse(route, o) ==
  CASE route = "earthquakes" -> EarthquakesRoute(o)
    [] route = "tsunami" -> TsunamiRoute(o)
    [] route = "volcanoes" -> VolcanoesRoute(o)
    [] route = "floods" -> FloodsRoute(o)

(***************************************************************************)
(* The browser side (src/app.js).                                          *)
(* A settled fetch is [link, resp]: link tells whether the browser reached *)
(* the server, resp is the server's response.  What fetchJson returns is   *)
(* [null |-> TRUE] or [null |-> FALSE, body |-> the parsed JSON body].     *)
(***************************************************************************)
LinkKinds == {"up", "down"}

\* fetchJson(path): null on a rejected fetch and on a response that is not
\* ok (status outside 200..299), else the parsed body
fetchJson(link, resp) ==
  IF link # "up" THEN [null |-> TRUE]
  ELSE IF ~(resp.status >= 200 /\ resp.status <= 299) THEN [null |-> TRUE]
  ELSE [null |-> FALSE, body |-> resp.body]

\* the truthiness of the data of a success envelope: the earthquake and
\* flood routes pass the upstream body through, whatever it is; the tsunami
\* and volcano routes send an array, and an array is truthy
Truthy(body) ==
  IF body.source \in {"usgs", "reliefweb"} THEN ~body.data.falsy ELSE TRUE

\* x && x.ok && x.data, for the envelopes the routes send
HasData(x) == ~x.null /\ x.body.ok /\ Truthy(x.body)

(***************************************************************************)
(* Earthquakes.  Magnitudes are in tenths (5.2 is 52).  A feature is       *)
(* [id, hasProps, mag, hasGeom]: mag is [null, v], null for a JSON null;   *)
(* id names the feature (its place, time and url).                         *)
(***************************************************************************)
RedMag == 50
OrangeMag == 30
EqShown == 50

\* the number a magnitude is in an arithmetic expression (null is 0)
ToNumber(mag) == IF mag.null THEN 0 ELSE mag.v

\* the comparator with its operands exchanged: ascending order
CompareMagAscending(a, b) == ToNumber(a.mag) - ToNumber(b.mag)

\* the comparator (a,b) => b.properties.mag - a.properties.mag
CompareMag(a, b) == ToNumber(b.mag) - ToNumber(a.mag)

\* Array.prototype.sort with the comparator: a stable sort, in which a
\* feature comes before another when the comparator is negative on them,
\* or is zero and it comes first in the array
ComesBefore(features, i, j) ==
  LET c == CompareMag(features[i], features[j])
  IN  c < 0 \/ (c = 0 /\ i < j)

SortByMag(features) ==
  LET n == Len(features)
      rank(i) == 1 + Cardinality({ j \in 1..n : j # i /\ ComesBefore(features, j, i) })
  IN  [r \in 1..n |-> features[CHOOSE i \in 1..n : rank(i) = r]]

\* const color = mag >= 5 ? 'red' : (mag >= 3 ? 'orange' : 'yellow')
Color(mag) == IF mag >= RedMag THEN "red" ELSE IF mag >= OrangeMag THEN "orange" ELSE "yellow"

\* f.properties.mag || 0
MagOrZero(mag) == IF mag.null \/ mag.v = 0 THEN 0 ELSE mag.v

\* one callback of the forEach: the list entry and the marker of a feature
EqItem(f) == [id |-> f.id, mag |-> MagOrZero(f.mag), color |-> Color(MagOrZero(f.mag))]

EqGuard(eq) ==
  HasData(eq) /\ eq.body.data.json /\ eq.body.data.featuresK = "array"

\* the list entries appended up to and including the one whose marker throws
RECURSIVE EqListUntilThrow(_)
EqListUntilThrow(sorted) ==
  IF sorted = << >> THEN << >>
  ELSE IF ~Head(sorted).hasGeom THEN << EqItem(Head(sorted)) >>
  ELSE << EqItem(Head(sorted)) >> \o EqListUntilThrow(Tail(sorted))

\* the markers added before the one that throws
RECURSIVE EqMarkersUntilThrow(_)
EqMarkersUntilThrow(sorted) ==
  IF sorted = << >> \/ ~Head(sorted).hasGeom THEN << >>
  ELSE << EqItem(Head(sorted)) >> \o EqMarkersUntilThrow(Tail(sorted))

EqCount(n) == [text |-> "events (past day)", n |-> n]
EqUnavailable == [text |-> "Earthquake feed unavailable", n |-> 0]

\* lines 29-53 of init, on the region [count, list, markers] it finds
RenderEarthquakes(eq, region) ==
  IF EqGuard(eq)
  THEN LET features == eq.body.data.features
           count == EqCount(Len(features))
       IN  IF \E i \in 1..Len(features) : ~features[i].hasProps
           THEN [threw |-> TRUE, count |-> count, list |-> << >>, markers |-> region.markers]
           ELSE LET shown == Slice(SortByMag(features), EqShown)
                IN  IF \E i \in 1..Len(shown) : ~shown[i].hasGeom
                    THEN [threw |-> TRUE, count |-> count, list |-> EqListUntilThrow(shown),
                          markers |-> region.markers \o EqMarkersUntilThrow(shown)]
                    ELSE LET items == [n \in 1..Len(shown) |-> EqItem(shown[n])]
                         IN  [threw |-> FALSE, count |-> count, list |-> items,
                              markers |-> region.markers \o items]
  ELSE [threw |-> FALSE, count |-> EqUnavailable, list |-> region.list, markers |-> region.markers]

(***************************************************************************)
(* Tsunami: the first entry's title, or the placeholder.                   *)
(***************************************************************************)
TsunamiPlaceholder == "No tsunami warnings (or feed unavailable)"

\* ts.data[0].title || 'Latest tsunami message'
RenderTsunami(ts) ==
  IF HasData(ts) /\ Len(ts.body.data) > 0
  THEN LET title == ts.body.data[1].title
       IN  IF title = UNDEF \/ title = "" THEN "Latest tsunami message" ELSE title
  ELSE TsunamiPlaceholder

(***************************************************************************)
(* Volcanoes: up to 6 entries and a trailing link.  A list entry is        *)
(* [k, name, status]: k is "entry", "more" or "unavailable"; status is     *)
(* the status shown after the dash, empty when none is shown.              *)
(***************************************************************************)
VolcanoShown == 6

\* `${v.name}${v.status ? ' — ' + v.status : ''}`
VolcanoItem(v) == [k |-> "entry", name |-> v.name, status |-> v.status]

VolcanoMore == [k |-> "more", name |-> << >>, status |-> << >>]
VolcanoUnavailable == [k |-> "unavailable", name |-> << >>, status |-> << >>]

RenderVolcanoes(vol) ==
  IF HasData(vol)
  THEN LET shown == Slice(vol.body.data, VolcanoShown)
       IN  Append([n \in 1..Len(shown) |-> VolcanoItem(shown[n])], VolcanoMore)
  ELSE << VolcanoUnavailable >>

(***************************************************************************)
(* Floods.  A list entry is [k, title, url]: k is "report", "more" or      *)
(* "unavailable"; url is the link target, NULL for plain text.  A report   *)
(* is [hasFields, title, urlK, urls]: urlK tells whether fields.url is     *)
(* "absent" (or falsy), an "array" or a non-empty "string"; urls are the   *)
(* elements of the array, or the characters of the string.                 *)
(***************************************************************************)
\* r.fields && r.fields.title ? r.fields.title : 'Report'
FloodTitle(r) ==
  IF r.hasFields /\ r.title # UNDEF /\ r.title # "" THEN r.title ELSE "Report"

\* r.fields && r.fields.url ? r.fields.url[0] : null
FloodUrl(r) ==
  IF r.hasFields /\ r.urlK # "absent"
  THEN IF Len(r.urls) >= 1 THEN r.urls[1] ELSE UNDEF
  ELSE NULL

\* li.innerHTML = url ? `<a target="_blank" href="${url}">${title}</a>` : title
FloodItem(r) ==
  LET url == FloodUrl(r)
  IN  [k |-> "report", title |-> FloodTitle(r),
       url |-> IF url \in {UNDEF, NULL, ""} THEN NULL ELSE url]

FloodMore == [k |-> "more", title |-> "Full ReliefWeb Flood Reports", url |-> "https://reliefweb.int/"]
FloodUnavailable == [k |-> "unavailable", title |-> "Flood feed unavailable", url |-> NULL]

\* flood && flood.ok && flood.data && flood.data.data
FloodGuard(flood) ==
  /\ HasData(flood)
  /\ flood.body.data.json
  /\ flood.body.data.dataK \notin {"absent", "falsy"}

\* lines 87-101 of init: forEach of a value that is no array throws
RenderFloods(flood) ==
  IF FloodGuard(flood)
  THEN IF flood.body.data.dataK = "array"
       THEN [threw |-> FALSE,
             list |-> LET reports == flood.body.data.data
                      IN  Append([n \in 1..Len(reports) |-> FloodItem(reports[n])], FloodMore)]
       ELSE [threw |-> TRUE, list |-> << >>]
  ELSE [threw |-> FALSE, list |-> << FloodUnavailable >>]

(***************************************************************************)
(* Inputs: the upstream replies the specifications draw from.              *)
(***************************************************************************)
Mag(v) == [null |-> FALSE, v |-> v]
NullMag == [null |-> TRUE, v |-> 0]

Feature(id, mag) == [id |-> id, hasProps |-> TRUE, mag |-> mag, hasGeom |-> TRUE]
NoProps(id) == [id |-> id, hasProps |-> FALSE, mag |-> NullMag, hasGeom |-> TRUE]
NoGeom(id, mag) == [id |-> id, hasProps |-> TRUE, mag |-> mag, hasGeom |-> FALSE]

\* a text that is not JSON, the empty body, the JSON null, a JSON object
\* without features, a feature collection
EqText == [json |-> FALSE, falsy |-> FALSE, featuresK |-> "absent", features |-> << >>]
EqEmpty == [json |-> FALSE, falsy |-> TRUE, featuresK |-> "absent", features |-> << >>]
EqNull == [json |-> TRUE, falsy |-> TRUE, featuresK |-> "absent", features |-> << >>]
EqObject == [json |-> TRUE, falsy |-> FALSE, featuresK |-> "absent", features |-> << >>]
EqCollection(features) ==
  [json |-> TRUE, falsy |-> FALSE, featuresK |-> "array", features |-> features]

EqBodies ==
  { EqText, EqEmpty, EqNull, EqObject,
    EqCollection(<< >>),
    EqCollection(<< Feature(1, Mag(52)), Feature(2, Mag(21)), Feature(3, Mag(68)) >>),
    EqCollection(<< Feature(1, Mag(52)), NoProps(2) >>),
    EqCollection(<< NoProps(1) >>),
    EqCollection(<< Feature(1, Mag(30)), NoGeom(2, Mag(45)) >>) }

NoSummary == [k |-> "absent", text |-> ""]
LinkEl(href) == [attrs |-> TRUE, href |-> href]
BareLink == [attrs |-> FALSE, href |-> UNDEF]

\* the k-th shape of an entry element, as the i-th entry of a feed
EntryShapes == 1..8
Entry(i, k) ==
  LET base == [empty |-> FALSE, id |-> ToString(i), title |-> "Tsunami " \o ToString(i),
               updated |-> "2024-01-01", summary |-> NoSummary,
               linkK |-> "single", links |-> << LinkEl("https://a") >>]
  IN  CASE k = 1 -> base
        [] k = 2 -> [base EXCEPT !.linkK = "list",
                                 !.links = << LinkEl("https://a"), LinkEl("https://b") >>]
        [] k = 3 -> [base EXCEPT !.linkK = "absent", !.links = << >>,
                                 !.summary = [k |-> "mixed", text |-> "inner"]]
        [] k = 4 -> [base EXCEPT !.empty = TRUE, !.id = UNDEF, !.title = UNDEF,
                                 !.updated = UNDEF, !.linkK = "absent", !.links = << >>]
        [] k = 5 -> [base EXCEPT !.linkK = "list", !.links = << BareLink, LinkEl("https://b") >>]
        [] k = 6 -> [base EXCEPT !.links = << BareLink >>, !.title = UNDEF]
        [] k = 7 -> [base EXCEPT !.links = << LinkEl(UNDEF) >>,
                                 !.summary = [k |-> "text", text |-> "plain"]]
        [] k = 8 -> [base EXCEPT !.linkK = "list",
                                 !.links = << LinkEl(UNDEF), LinkEl("https://b") >>,
                                 !.summary = [k |-> "mixed", text |-> ""]]

\* a feed element with the given entry elements
Feed(entries) ==
  [k |-> "feed",
   entryK |-> IF Len(entries) = 0 THEN "absent" ELSE IF Len(entries) = 1 THEN "single" ELSE "list",
   entries |-> entries]

NotXml == [k |-> "reject", entryK |-> "absent", entries |-> << >>]
EmptyDocument == [k |-> "null", entryK |-> "absent", entries |-> << >>]
OtherRoot == [k |-> "noFeed", entryK |-> "absent", entries |-> << >>]

TsunamiBodies ==
  { NotXml, EmptyDocument, OtherRoot, Feed(<< >>),
    Feed(<< Entry(1, 1) >>), Feed(<< Entry(1, 6) >>),
    Feed(<< Entry(1, 2), Entry(2, 3) >>) }

\* a text of n characters between lead and trail white-space characters
Text(lead, n, trail) ==
  [i \in 1..(lead + n + trail) |-> IF i <= lead \/ i > lead + n THEN 0 ELSE 1 + (i % 7)]

Page(rows, lis) == [k |-> "html", rows |-> rows, lis |-> lis]
NullPage == [k |-> "null", rows |-> << >>, lis |-> << >>]

VolcanoBodies ==
  { NullPage, Page(<< >>, << >>),
    Page(<< << >>, << Text(1, 4, 1), Text(0, 6, 0) >>, << Text(0, 5, 0) >> >>, << Text(0, 12, 0) >>),
    Page(<< << Text(2, 0, 0) >> >>, << Text(0, 5, 0), Text(1, 11, 1) >>) }

Report(title, urlK, urls) == [hasFields |-> TRUE, title |-> title, urlK |-> urlK, urls |-> urls]
BareReport == [hasFields |-> FALSE, title |-> UNDEF, urlK |-> "absent", urls |-> << >>]

\* a text that is not JSON, the empty body, the JSON null, a JSON object
\* without data, one whose data is falsy, one whose data is truthy and no
\* array, a result list
FloodText == [json |-> FALSE, falsy |-> FALSE, dataK |-> "absent", data |-> << >>]
FloodEmpty == [json |-> FALSE, falsy |-> TRUE, dataK |-> "absent", data |-> << >>]
FloodNull == [json |-> TRUE, falsy |-> TRUE, dataK |-> "absent", data |-> << >>]
FloodObject(dataK) == [json |-> TRUE, falsy |-> FALSE, dataK |-> dataK, data |-> << >>]
FloodResults(reports) ==
  [json |-> TRUE, falsy |-> FALSE, dataK |-> "array", data |-> reports]

FloodBodies ==
  { FloodText, FloodEmpty, FloodNull,
    FloodObject("absent"), FloodObject("falsy"), FloodObject("object"),
    FloodResults(<< >>),
    FloodResults(<< Report("Flood A", "array", << "https://r/1", "https://r/2" >>),
                    Report("Flood B", "absent", << >>), BareReport,
                    Report("Flood C", "array", << >>), Report("Flood D", "array", << "" >>),
                    Report("Flood E", "string", << "h", "t", "t", "p" >>) >>) }

Bodies(route) ==
  CASE route = "earthquakes" -> EqBodies
    [] route = "tsunami" -> TsunamiBodies
    [] route = "volcanoes" -> VolcanoBodies
    [] route = "floods" -> FloodBodies

\* a transport failure carries no body the handler reads: this one stands in
NoBody(route) ==
  CASE route = "earthquakes" -> EqText
    [] route = "tsunami" -> NotXml
    [] route = "volcanoes" -> Page(<< >>, << >>)
    [] route = "floods" -> FloodText

Outcomes(route) ==
  { [net |-> "ok", body |-> b] : b \in Bodies(route) }
    \cup { [net |-> n, body |-> NoBody(route)] : n \in NetKinds \ {"ok"} }

(***************************************************************************)
(* State.                                                                  *)
(*   reqs      per request slot of the server: [st, route], st one of      *)
(*             "free", "waiting" (suspended in await axios.get), "parsing" *)
(*             (suspended in await parser.parseStringPromise) and          *)
(*             "answered"                                                  *)
(*   upstream  per slot: the outcome its outbound GET settled with         *)
(*   resps     per slot: the response sent                                 *)
(*   now       the server's clock                                          *)
(*   pc        where init() of the page is: "load", the feed whose fetch   *)
(*             it awaits, "done", or "rejected" (an exception left init)   *)
(*   issued    the fetches init has issued, in order                       *)
(*   payload   per feed: what fetchJson returned                           *)
(*   dom       the regions of the page                                     *)
(*   btn       whether the emergency button has its handler                *)
(***************************************************************************)
VARIABLES reqs, upstream, resps, now, pc, issued, payload, dom, btn

serverVars == << reqs, upstream, resps, now >>
pageVars == << pc, issued, payload, dom, btn >>
vars == << reqs, upstream, resps, now, pc, issued, payload, dom, btn >>

NumSlots == 2
MaxTime == 1
Slots == 1..NumSlots

NoOutcome == [net |-> "none"]
NoResponse == [status |-> 0]
INITIAL == "<initial>"

InitServer ==
  /\ reqs = [i \in Slots |-> [st |-> "free", route |-> "none"]]
  /\ upstream = [i \in Slots |-> NoOutcome]
  /\ resps = [i \in Slots |-> NoResponse]
  /\ now = 0

InitPage ==
  /\ pc = "load"
  /\ issued = << >>
  /\ payload = [f \in FeedRoutes |-> [null |-> TRUE]]
  /\ dom = [eq |-> [count |-> [text |-> INITIAL, n |-> 0], list |-> << >>, markers |-> << >>],
            tsunami |-> INITIAL, volcano |-> << >>, flood |-> << >>]
  /\ btn = FALSE

Init == InitServer /\ InitPage

(***************************************************************************)
(* The server.                                                             *)
(***************************************************************************)
\* a feed route's handler runs up to its await axios.get(...)
Receive(i, route) ==
  /\ reqs[i].st = "free"
  /\ reqs' = [reqs EXCEPT ![i] = [st |-> "waiting", route |-> route]]
  /\ UNCHANGED << upstream, resps, now, pageVars >>

\* a handler that remembers the last failure in a variable of the module and
\* answers with it while another request has failed
SettleShared(i, route, o) ==
  /\ reqs[i] = [st |-> "waiting", route |-> route]
  /\ upstream' = [upstream EXCEPT ![i] = o]
  /\ IF route = "tsunami" /\ ~AxiosGet(o).threw
     THEN /\ reqs' = [reqs EXCEPT ![i].st = "parsing"]
          /\ UNCHANGED resps
     ELSE /\ reqs' = [reqs EXCEPT ![i].st = "answered"]
          /\ resps' = [resps EXCEPT ![i] =
                IF \E j \in Slots : j # i /\ resps[j].status = 500
                THEN resps[CHOOSE j \in Slots : j # i /\ resps[j].status = 500]
                ELSE RouteResponse(route, o)]
  /\ UNCHANGED << now, pageVars >>

\* the outbound GET of slot i settles with outcome o and the handler runs
\* on to its next await or to its end: the tsunami handler, when the GET
\* resolved, starts the parse and is suspended again in await
\* parser.parseStringPromise(r.data); every other run ends with the answer
Settle(i, route, o) ==
  /\ reqs[i] = [st |-> "waiting", route |-> route]
  /\ upstream' = [upstream EXCEPT ![i] = o]
  /\ IF route = "tsunami" /\ ~AxiosGet(o).threw
     THEN /\ reqs' = [reqs EXCEPT ![i].st = "parsing"]
          /\ UNCHANGED resps
     ELSE /\ reqs' = [reqs EXCEPT ![i].st = "answered"]
          /\ resps' = [resps EXCEPT ![i] = RouteResponse(route, o)]
  /\ UNCHANGED << now, pageVars >>

\* the parse of slot i settles and the tsunami handler runs to its end: it
\* maps the entries and answers, or catches and answers 500
Parsed(i) ==
  /\ reqs[i] = [st |-> "parsing", route |-> "tsunami"]
  /\ reqs' = [reqs EXCEPT ![i].st = "answered"]
  /\ resps' = [resps EXCEPT ![i] = TsunamiRoute(upstream[i])]
  /\ UNCHANGED << upstream, now, pageVars >>

\* /api/ping answers in one step
Ping(i) ==
  /\ reqs[i].st = "free"
  /\ reqs' = [reqs EXCEPT ![i] = [st |-> "answered", route |-> "ping"]]
  /\ resps' = [resps EXCEPT ![i] = PingRoute(now)]
  /\ UNCHANGED << upstream, now, pageVars >>

Tick ==
  /\ now < MaxTime
  /\ now' = now + 1
  /\ UNCHANGED << reqs, upstream, resps, pageVars >>

NextRoutes ==
  \/ \E i \in Slots, route \in FeedRoutes : Receive(i, route)
  \/ \E i \in Slots, route \in FeedRoutes : \E o \in Outcomes(route) : Settle(i, route, o)
  \/ \E i \in Slots : Parsed(i)
  \/ \E i \in Slots : Ping(i)
  \/ Tick

SpecRoutes == Init /\ [][NextRoutes]_vars

(***************************************************************************)
(* The page.  A fetch of a feed settles with [link, o]: whether the        *)
(* browser reached the server, and the outcome of the route's own upstream *)
(* GET, to which the route answers RouteResponse.  Each action is one run  *)
(* of init between two awaits.                                             *)
(***************************************************************************)
\* an init that starts the four fetches together before awaiting any
LoadAllAtOnce ==
  /\ pc = "load"
  /\ pc' = "earthquakes"
  /\ issued' = << "earthquakes", "tsunami", "volcanoes", "floods" >>
  /\ UNCHANGED << payload, dom, btn, serverVars >>

\* DOMContentLoaded: the map is set up and the first fetch issued
Load ==
  /\ pc = "load"
  /\ pc' = "earthquakes"
  /\ issued' = << "earthquakes" >>
  /\ UNCHANGED << payload, dom, btn, serverVars >>

SettleEarthquakes(link, o) ==
  /\ pc = "earthquakes"
  /\ LET eq == fetchJson(link, RouteResponse("earthquakes", o))
         r == RenderEarthquakes(eq, dom.eq)
     IN  /\ payload' = [payload EXCEPT !["earthquakes"] = eq]
         /\ dom' = [dom EXCEPT !.eq = [count |-> r.count, list |-> r.list, markers |-> r.markers]]
         /\ IF r.threw
            THEN pc' = "rejected" /\ UNCHANGED issued
            ELSE pc' = "tsunami" /\ issued' = Append(issued, "tsunami")
  /\ UNCHANGED << btn, serverVars >>

\* a fetchJson that lets the failure of the fetch escape
SettleTsunamiUncaught(link, o) ==
  /\ pc = "tsunami"
  /\ LET ts == fetchJson(link, RouteResponse("tsunami", o))
     IN  /\ payload' = [payload EXCEPT !["tsunami"] = ts]
         /\ IF ts.null
            THEN pc' = "rejected" /\ UNCHANGED << dom, issued >>
            ELSE /\ dom' = [dom EXCEPT !.tsunami = RenderTsunami(ts)]
                 /\ pc' = "volcanoes"
                 /\ issued' = Append(issued, "volcanoes")
  /\ UNCHANGED << btn, serverVars >>

SettleTsunami(link, o) ==
  /\ pc = "tsunami"
  /\ LET ts == fetchJson(link, RouteResponse("tsunami", o))
     IN  /\ payload' = [payload EXCEPT !["tsunami"] = ts]
         /\ dom' = [dom EXCEPT !.tsunami = RenderTsunami(ts)]
  /\ pc' = "volcanoes"
  /\ issued' = Append(issued, "volcanoes")
  /\ UNCHANGED << btn, serverVars >>

SettleVolcanoes(link, o) ==
  /\ pc = "volcanoes"
  /\ LET vol == fetchJson(link, RouteResponse("volcanoes", o))
     IN  /\ payload' = [payload EXCEPT !["volcanoes"] = vol]
         /\ dom' = [dom EXCEPT !.volcano = RenderVolcanoes(vol)]
  /\ pc' = "floods"
  /\ issued' = Append(issued, "floods")
  /\ UNCHANGED << btn, serverVars >>

SettleFloods(link, o) ==
  /\ pc = "floods"
  /\ LET flood == fetchJson(link, RouteResponse("floods", o))
         r == RenderFloods(flood)
     IN  /\ payload' = [payload EXCEPT !["floods"] = flood]
         /\ dom' = [dom EXCEPT !.flood = r.list]
         /\ IF r.threw
            THEN pc' = "rejected" /\ UNCHANGED btn
            ELSE pc' = "done" /\ btn' = TRUE
  /\ UNCHANGED << issued, serverVars >>

NextInit ==
  \/ Load
  \/ \E link \in LinkKinds, o \in Outcomes("earthquakes") : SettleEarthquakes(link, o)
  \/ \E link \in LinkKinds, o \in Outcomes("tsunami") : SettleTsunami(link, o)
  \/ \E link \in LinkKinds, o \in Outcomes("volcanoes") : SettleVolcanoes(link, o)
  \/ \E link \in LinkKinds, o \in Outcomes("floods") : SettleFloods(link, o)

SpecInit == Init /\ [][NextInit]_vars

(***************************************************************************)
(* Properties of the routes, under SpecRoutes.                             *)
(***************************************************************************)
Answered(i) == reqs[i].st = "answered" /\ reqs[i].route \in FeedRoutes

\* the documented error string and source name of each feed route
ErrorString(route) ==
  CASE route = "earthquakes" -> "Failed to fetch earthquakes"
    [] route = "tsunami" -> "Failed to fetch tsunami feed"
    [] route = "volcanoes" -> "Failed to fetch volcano info"
    [] route = "floods" -> "Failed to fetch flood reports"

SourceName(route) ==
  CASE route = "earthquakes" -> "usgs"
    [] route = "tsunami" -> "tsunami.gov"
    [] route = "volcanoes" -> "gvp"
    [] route = "floods" -> "reliefweb"

IsFailureOf(resp, route) ==
  /\ resp.status = 500
  /\ DOMAIN resp.body = {"ok", "error"}
  /\ resp.body.ok = FALSE
  /\ resp.body.error = ErrorString(route)

\* a body that is not in the format the route reads: no JSON, no
\* well-formed XML, no HTML text
Malformed(route, body) ==
  CASE route = "earthquakes" -> ~body.json
    [] route = "tsunami" -> body.k = "reject"
    [] route = "volcanoes" -> body.k = "null"
    [] route = "floods" -> ~body.json

\* the fetch rejects
FetchFails(o) == o.net \in {"network", "timeout", "non2xx"}

\* the handler's own reading of a fetched body throws: /api/tsunami on XML
\* that is not well-formed, on an empty document and on an entry whose list
\* of links starts with an attribute-less link; /api/volcanoes on a body
\* that is no text; /api/earthquakes and /api/floods do not read the body
ReadingFails(route, o) ==
  /\ o.net = "ok"
  /\ \/ /\ route = "tsunami"
        /\ \/ o.body.k \in {"reject", "null"}
           \/ /\ o.body.k = "feed"
              /\ o.body.entryK \in {"single", "list"}
              /\ \E n \in 1..Len(o.body.entries) :
                   LET e == o.body.entries[n]
                   IN  ~e.empty /\ e.linkK = "list" /\ ~e.links[1].attrs
     \/ /\ route = "volcanoes"
        /\ o.body.k = "null"

\* C1 as stated: on every feed route a network error, a timeout, a non-2xx
\* status and a malformed body are all answered with status 500 and exactly
\* {ok:false, error:<the route's fixed string>}.
C1_AnyCauseIs500 ==
  \A i \in Slots :
    (Answered(i) /\ (FetchFails(upstream[i]) \/ Malformed(reqs[i].route, upstream[i].body)))
      => IsFailureOf(resps[i], reqs[i].route)

\* C1 amended: a route answers status 500 with exactly {ok:false,
\* error:<its fixed string>} whenever its fetch rejects (network error,
\* timeout, non-2xx status) or its reading of the body throws (on
\* /api/tsunami and /api/volcanoes, which parse the body), whatever the
\* cause; a malformed 2xx body that makes nothing throw (a body that is
\* not JSON on /api/earthquakes and /api/floods, which pass it through) is
\* answered with status 200 and ok:true.
C1_FailureIs500 ==
  \A i \in Slots :
    Answered(i) =>
      IF FetchFails(upstream[i]) \/ ReadingFails(reqs[i].route, upstream[i])
      THEN IsFailureOf(resps[i], reqs[i].route)
      ELSE resps[i].status = 200 /\ resps[i].body.ok = TRUE

\* C1 witness: a tsunami request whose body was not well-formed XML, or a
\* volcano request whose body was no text, was answered, and an earthquake
\* or flood request whose body was not JSON was answered.
C1_Witness ==
  \E i, j \in Slots :
    /\ Answered(i) /\ upstream[i].net = "ok"
    /\ \/ reqs[i].route = "tsunami" /\ upstream[i].body.k = "reject"
       \/ reqs[i].route = "volcanoes" /\ upstream[i].body.k = "null"
    /\ resps[i].status = 500
    /\ Answered(j) /\ reqs[j].route \in {"earthquakes", "floods"}
    /\ upstream[j].net = "ok" /\ ~upstream[j].body.json
    /\ resps[j].status = 200

\* C2: every envelope a feed route sends is either {ok:true, source:<the
\* route's source name>, data} without error, or {ok:false, error} without
\* data.
C2_Envelope ==
  \A i \in Slots :
    Answered(i) =>
      LET b == resps[i].body
      IN  /\ "ok" \in DOMAIN b
          /\ b.ok = TRUE => /\ "data" \in DOMAIN b
                            /\ "source" \in DOMAIN b
                            /\ b.source = SourceName(reqs[i].route)
                            /\ "error" \notin DOMAIN b
          /\ b.ok = FALSE => /\ "error" \in DOMAIN b
                             /\ "data" \notin DOMAIN b

\* C2 witness: one request was answered ok:true and another ok:false.
C2_Witness ==
  \E i, j \in Slots :
    /\ Answered(i) /\ resps[i].body.ok = TRUE
    /\ Answered(j) /\ resps[j].body.ok = FALSE

\* C3: whatever the other slots do, an answered feed request carries the
\* response its route gives to its own upstream outcome, an answered ping
\* carries {ok:true, time}, a request waiting for its GET or for its parse
\* can go on to its answer and a free slot can answer a ping.
C3_Isolation ==
  \A i \in Slots :
    /\ Answered(i) => resps[i] = RouteResponse(reqs[i].route, upstream[i])
    /\ (reqs[i].st = "answered" /\ reqs[i].route = "ping") =>
         /\ resps[i].status = 200
         /\ DOMAIN resps[i].body = {"ok", "time"}
         /\ resps[i].body.ok = TRUE
    /\ reqs[i].st = "waiting" =>
         ENABLED (\E o \in Outcomes(reqs[i].route) : Settle(i, reqs[i].route, o))
    /\ reqs[i].st = "parsing" =>
         /\ reqs[i].route = "tsunami" /\ upstream[i].net = "ok"
         /\ ENABLED Parsed(i)
    /\ reqs[i].st = "free" => ENABLED Ping(i)

\* C3 witness: a request that timed out and a request of another route that
\* succeeded have both been answered.
C3_Witness ==
  \E i, j \in Slots :
    /\ Answered(i) /\ upstream[i].net = "timeout" /\ resps[i].status = 500
    /\ Answered(j) /\ reqs[j].route # reqs[i].route /\ resps[j].status = 200

\* C3 second case: a tsunami request is still in its parse while a request
\* whose GET settled later has been answered with a failure.
C3_Overtaken ==
  \E i, j \in Slots :
    /\ reqs[i].st = "parsing"
    /\ Answered(j) /\ resps[j].status = 500

(***************************************************************************)
(* Properties of the page, under SpecInit.                                 *)
(***************************************************************************)
FeedOrder == << "earthquakes", "tsunami", "volcanoes", "floods" >>

Issued(f) == \E k \in 1..Len(issued) : issued[k] = f

\* the fetch of f has settled and init has run on from it
Settled(f) == Issued(f) /\ pc # f

\* the fetch of f failed: a network error or a response that is not ok
FetchFailed(f) == Settled(f) /\ payload[f].null

PlaceholderShown(f) ==
  CASE f = "earthquakes" -> dom.eq.count.text = "Earthquake feed unavailable"
    [] f = "tsunami" -> dom.tsunami = "No tsunami warnings (or feed unavailable)"
    [] f = "volcanoes" -> Len(dom.volcano) = 1 /\ dom.volcano[1].k = "unavailable"
    [] f = "floods" -> /\ Len(dom.flood) = 1
                       /\ dom.flood[1].k = "unavailable"
                       /\ dom.flood[1].title = "Flood feed unavailable"

RegionWritten(f) ==
  CASE f = "earthquakes" -> dom.eq.count.text # INITIAL
    [] f = "tsunami" -> dom.tsunami # INITIAL
    [] f = "volcanoes" -> dom.volcano # << >>
    [] f = "floods" -> dom.flood # << >>

\* C7: a feed whose fetch failed shows its placeholder and init goes on to
\* the next feed (after the last one, to the end); an exception leaves init
\* only at a feed whose fetch succeeded; when init ends every region is
\* written; with all four fetches failed init ends with the four
\* placeholders and the button set up.
C7_FailureIsolated ==
  /\ \A k \in 1..4 :
       FetchFailed(FeedOrder[k]) =>
         /\ PlaceholderShown(FeedOrder[k])
         /\ IF k < 4 THEN Issued(FeedOrder[k + 1]) ELSE pc = "done"
  /\ pc = "rejected" => ~payload[issued[Len(issued)]].null
  /\ pc = "done" => btn /\ \A f \in FeedRoutes : RegionWritten(f)
  /\ (\A f \in FeedRoutes : FetchFailed(f)) =>
       pc = "done" /\ \A f \in FeedRoutes : PlaceholderShown(f)

\* C7 witness: init has ended with all four fetches failed.
C7_Witness == pc = "done" /\ \A f \in FeedRoutes : FetchFailed(f)

\* C8 as stated: once init runs, the four requests are all issued, none
\* waiting for another feed's response.
C8_AllIssuedAtOnce ==
  pc # "load" => \A f \in FeedRoutes : Issued(f)

\* C8 amended: init issues the four fetches one after another in the order
\* earthquakes, tsunami, volcanoes, floods: each is issued only after the
\* one before it has settled and has been rendered, so at most one is in
\* flight.
C8_OneAtATime ==
  /\ Len(issued) <= 4
  /\ \A k \in 1..Len(issued) : issued[k] = FeedOrder[k]
  /\ \A k \in 2..Len(issued) : Settled(issued[k - 1]) /\ RegionWritten(issued[k - 1])
  /\ Cardinality({ f \in FeedRoutes : Issued(f) /\ ~Settled(f) }) <= 1

\* C8 witness: the tsunami fetch is in flight, issued after the earthquake
\* response was rendered, and the volcano and flood fetches are not issued.
C8_Witness ==
  /\ pc = "tsunami" /\ ~payload["earthquakes"].null
  /\ Len(dom.eq.list) = 3
  /\ ~Issued("volcanoes") /\ ~Issued("floods")

\* what fetchJson returned for f parses as JSON, has ok:true, and is not of
\* the documented shape
MalformedPayload(f) ==
  /\ Settled(f) /\ ~payload[f].null /\ payload[f].body.ok
  /\ CASE f = "earthquakes" ->
            LET d == payload[f].body.data
            IN  \/ ~d.json \/ d.featuresK # "array"
                \/ \E n \in 1..Len(d.features) : ~d.features[n].hasProps \/ ~d.features[n].hasGeom
       [] f = "floods" ->
            LET d == payload[f].body.data
            IN  ~d.json \/ d.dataK # "array"
       [] OTHER -> FALSE

\* C9 as stated: a feed whose payload is malformed shows its placeholder,
\* no exception leaves init, and init goes on to set up the rest.
C9_MalformedIsPlaceholder ==
  \A f \in FeedRoutes :
    MalformedPayload(f) => PlaceholderShown(f) /\ pc # "rejected"

(***************************************************************************)
(* /api/tsunami on feeds of up to MaxEntries entry elements of every       *)
(* shape.                                                                  *)
(***************************************************************************)
MaxEntries == 3

\* the feed of n entries whose i-th entry has shape ks[i]
TsunamiFeed(n, ks) == Feed([i \in 1..n |-> Entry(i, ks[i])])

NextTsunami ==
  \/ Receive(1, "tsunami")
  \/ \E n \in 0..MaxEntries : \E ks \in [1..n -> EntryShapes] :
       Settle(1, "tsunami", [net |-> "ok", body |-> TsunamiFeed(n, ks)])
  \/ Parsed(1)

SpecTsunami == Init /\ [][NextTsunami]_vars

\* C4: on a fetched and parsed feed, /api/tsunami answers with a data list
\* of one element per entry element, in feed order, and the link of each
\* element is the href of the first link element of its entry.
C4_OnePerEntry ==
  \A i \in Slots :
    (Answered(i) /\ reqs[i].route = "tsunami"
       /\ upstream[i].net = "ok" /\ upstream[i].body.k = "feed") =>
      LET entries == upstream[i].body.entries
      IN  /\ resps[i].status = 200
          /\ resps[i].body.ok = TRUE
          /\ Len(resps[i].body.data) = Len(entries)
          /\ \A n \in 1..Len(entries) :
               /\ resps[i].body.data[n].id = entries[n].id
               /\ (entries[n].linkK # "absent" /\ entries[n].links[1].href # UNDEF) =>
                    resps[i].body.data[n].link = entries[n].links[1].href

(***************************************************************************)
(* /api/volcanoes on pages of up to MaxRows table rows and MaxLis list     *)
(* items.  The rows of a page are all of one kind or run through the four  *)
(* kinds; so do its list items.                                            *)
(***************************************************************************)
MaxRows == 10
MaxLis == 10

\* the i-th row: no cell, a blank first cell, one cell, two cells
RowKind(i, k) ==
  CASE k = 0 -> << >>
    [] k = 1 -> << Text(2, 0, 1), Text(0, 3, 0) >>
    [] k = 2 -> << Text(1, 2 + i, 1) >>
    [] k = 3 -> << Text(0, 3 + i, 0), Text(1, 3, 2) >>

\* the i-th item: short, of 10 characters, of 11, of 60 and more
LiKind(i, k) ==
  CASE k = 0 -> Text(0, 5, 0)
    [] k = 1 -> Text(1, 10, 1)
    [] k = 2 -> Text(0, 11, 2)
    [] k = 3 -> Text(1, 60 + (i % 3), 0)

\* n rows of kind b (a = 0) or running through the kinds from b (a = 1)
Rows(n, a, b) == [i \in 1..n |-> RowKind(i, (i * a + b) % 4)]
Lis(m, c, d) == [i \in 1..m |-> LiKind(i, (i * c + d) % 4)]

NextVolcanoes ==
  \/ Receive(1, "volcanoes")
  \/ \E n \in 0..MaxRows, a \in 0..1, b \in 0..3, m \in 0..MaxLis, c \in 0..1, d \in 0..3 :
       Settle(1, "volcanoes", [net |-> "ok", body |-> Page(Rows(n, a, b), Lis(m, c, d))])

SpecVolcanoes == Init /\ [][NextVolcanoes]_vars

RowCounts(tds) == Len(tds) >= 1 /\ Trim(tds[1]) # << >>
RowEntry(tds) ==
  [name |-> Trim(tds[1]), status |-> IF Len(tds) >= 2 THEN Trim(tds[2]) ELSE << >>]
LiCounts(li) == Len(Trim(li)) > 10
LiEntry(li) == [name |-> SubSeq(Trim(li), 1, Min(60, Len(Trim(li)))), status |-> << >>]
First8(s) == SubSeq(s, 1, Min(8, Len(s)))

\* C5: for a fetched HTML page /api/volcanoes answers ok:true with at most 8
\* entries: the first 8 table rows that have a non-blank first cell, as
\* {name: cell 0, status: cell 1 or empty}, when there is such a row;
\* otherwise the first 8 list items longer than 10 characters, as {name: the
\* text cut to 60 characters, status: ""}; the empty list when there is
\* neither.
C5_TableThenList ==
  \A i \in Slots :
    (Answered(i) /\ reqs[i].route = "volcanoes" /\ upstream[i].net = "ok"
       /\ upstream[i].body.k = "html") =>
      LET page == upstream[i].body
          rows == SelectSeq(page.rows, RowCounts)
          lis == SelectSeq(page.lis, LiCounts)
          fromTable == [n \in 1..Len(rows) |-> RowEntry(rows[n])]
          fromList == [n \in 1..Len(lis) |-> LiEntry(lis[n])]
          data == resps[i].body.data
      IN  /\ resps[i].status = 200
          /\ resps[i].body.ok = TRUE
          /\ Len(data) <= 8
          /\ data = IF fromTable # << >> THEN First8(fromTable) ELSE First8(fromList)
          /\ \A n \in 1..Len(data) : fromTable = << >> => Len(data[n].name) <= 60

\* C5 witness: a page of more than 8 table rows, none of them countable, and
\* of more than 8 countable list items, one of the first 8 longer than 60
\* characters, was answered with 8 entries.
C5_Witness ==
  \E i \in Slots :
    /\ Answered(i) /\ reqs[i].route = "volcanoes"
    /\ Len(resps[i].body.data) = 8
    /\ Len(upstream[i].body.rows) > 8
    /\ Len(SelectSeq(upstream[i].body.rows, RowCounts)) = 0
    /\ Len(SelectSeq(upstream[i].body.lis, LiCounts)) > 8
    /\ \E n \in 1..8 : Len(Trim(upstream[i].body.lis[n])) > 60

(***************************************************************************)
(* The flood feed end to end: the search service replies with up to        *)
(* FloodLimit + MaxSurplus reports, or with a data property that is no     *)
(* array; the route passes the reply through and init renders it.  The     *)
(* three fetches before it fail.                                           *)
(***************************************************************************)
MaxSurplus == 1

ShapePeriod == 3

\* the k-th shape of a report: two urls, no url field, no fields, no title,
\* an empty url array, an empty first url
ReportShapes == 1..6
ReportShape(i, k) ==
  CASE k = 1 -> Report("Flood " \o ToString(i), "array", << "https://r/" \o ToString(i), "https://alt" >>)
    [] k = 2 -> Report("Flood " \o ToString(i), "absent", << >>)
    [] k = 3 -> BareReport
    [] k = 4 -> Report(UNDEF, "array", << "https://only/" \o ToString(i) >>)
    [] k = 5 -> Report("Flood " \o ToString(i), "array", << >>)
    [] k = 6 -> Report("Flood " \o ToString(i), "array", << "", "https://alt" >>)

\* the n reports whose shapes run through ks
Reports(n, ks) == [i \in 1..n |-> ReportShape(i, ks[1 + (i % Len(ks))])]

Unreachable(route) == [net |-> "network", body |-> NoBody(route)]

NextFloods ==
  \/ Load
  \/ SettleEarthquakes("down", Unreachable("earthquakes"))
  \/ SettleTsunami("down", Unreachable("tsunami"))
  \/ SettleVolcanoes("down", Unreachable("volcanoes"))
  \/ /\ pc = "floods"
     /\ \E n \in 0..(FloodLimit + MaxSurplus) : \E ks \in [1..ShapePeriod -> ReportShapes] :
          SettleFloods("up", [net |-> "ok", body |-> FloodResults(Reports(n, ks))])
  \/ SettleFloods("up", [net |-> "ok", body |-> FloodObject("object")])

SpecFloods == Init /\ [][NextFloods]_vars

\* C6: the data.data of a successful flood response is an array of at
\* most 6 entries, and each is rendered as {title, url}: url is the first
\* element of the entry's url field, and null (the entry is plain text)
\* when the entry has no such field or the field has no first element to
\* link to.
C6_FloodReports ==
  (Settled("floods") /\ ~payload["floods"].null /\ payload["floods"].body.ok) =>
    LET d == payload["floods"].body.data.data
    IN  /\ payload["floods"].body.data.dataK = "array"
        /\ Len(d) <= 6
        /\ Len(dom.flood) = Len(d) + 1
        /\ \A n \in 1..Len(d) :
             /\ dom.flood[n].k = "report"
             /\ (d[n].hasFields /\ d[n].title # UNDEF) => dom.flood[n].title = d[n].title
             /\ (d[n].hasFields /\ d[n].urlK = "array" /\ Len(d[n].urls) >= 1
                   /\ d[n].urls[1] # "") =>
                  dom.flood[n].url = d[n].urls[1]
             /\ (~d[n].hasFields \/ d[n].urlK = "absent") => dom.flood[n].url = NULL
             /\ (d[n].hasFields /\ d[n].urlK = "array"
                   /\ (Len(d[n].urls) = 0 \/ d[n].urls[1] = "")) => dom.flood[n].url = NULL

(***************************************************************************)
(* The earthquake list on feature lists of up to MaxShort features of      *)
(* every sample magnitude, on those lists with one feature lacking its     *)
(* properties or its geometry, and on lists of EqShown - 1 to EqShown +    *)
(* MaxOver features whose magnitudes run through -0.5 .. 7.4.              *)
(***************************************************************************)
MaxShort == 3
MaxOver == 2

SampleMags ==
  { NullMag, Mag(-5), Mag(0), Mag(21), Mag(29), Mag(30), Mag(49), Mag(50), Mag(52), Mag(68) }

Strides == {1, 7, 11, 23}

\* the features of magnitudes ms, and n features whose magnitudes run
\* through -0.5 .. 7.4 in steps of p tenths
Sampled(n, ms) == [i \in 1..n |-> Feature(i, ms[i])]
Strided(n, p) == [i \in 1..n |-> Feature(i, Mag(((i * p) % 80) - 5))]

\* the features of magnitudes ms, the k-th without geometry (g) or without
\* properties
Damaged(n, ms, k, g) ==
  [i \in 1..n |-> IF i # k THEN Feature(i, ms[i])
                  ELSE IF g THEN NoGeom(i, ms[i]) ELSE NoProps(i)]

NextQuakes ==
  \/ Load
  \/ /\ pc = "earthquakes"
     /\ \E n \in 0..MaxShort : \E ms \in [1..n -> SampleMags] :
          SettleEarthquakes("up", [net |-> "ok", body |-> EqCollection(Sampled(n, ms))])
  \/ /\ pc = "earthquakes"
     /\ \E n \in 1..MaxShort : \E ms \in [1..n -> SampleMags], k \in 1..n, g \in BOOLEAN :
          SettleEarthquakes("up", [net |-> "ok", body |-> EqCollection(Damaged(n, ms, k, g))])
  \/ /\ pc = "earthquakes"
     /\ \E n \in (EqShown - 1)..(EqShown + MaxOver), p \in Strides :
          SettleEarthquakes("up", [net |-> "ok", body |-> EqCollection(Strided(n, p))])

SpecQuakes == Init /\ [][NextQuakes]_vars

\* the magnitude of a feature as a number, a null magnitude counting as 0
MagnitudeOf(f) == IF f.mag.null THEN 0 ELSE f.mag.v

\* C10: the rendered features are in non-increasing order of magnitude, at
\* most 50 (the whole list, or 50 of a longer one, unless rendering stopped
\* at a feature without properties or geometry), and those of the highest
\* magnitudes; a marker is red from 5.0, orange from 3.0 and below 5.0, and
\* yellow below.
C10_TopFiftyDescending ==
  (Settled("earthquakes") /\ ~payload["earthquakes"].null) =>
    LET features == payload["earthquakes"].body.data.features
        list == dom.eq.list
        shown == { list[n].id : n \in 1..Len(list) }
    IN  /\ Len(list) <= 50
        /\ pc # "rejected" => Len(list) = Min(Len(features), 50) /\ dom.eq.markers = list
        /\ \A n \in 1..Len(dom.eq.markers) : dom.eq.markers[n] = list[n]
        /\ Cardinality(shown) = Len(list)
        /\ \A n \in 1..Len(list) :
             /\ list[n].id \in 1..Len(features)
             /\ list[n].mag = MagnitudeOf(features[list[n].id])
             /\ list[n].color = IF list[n].mag >= 50 THEN "red"
                                ELSE IF list[n].mag >= 30 THEN "orange" ELSE "yellow"
        /\ \A n \in 1..(Len(list) - 1) : list[n].mag >= list[n + 1].mag
        /\ \A k \in 1..Len(features) :
             k \notin shown => \A n \in 1..Len(list) : list[n].mag >= MagnitudeOf(features[k])

\* C10 witness: of more than 50 features 50 are rendered, in all three
\* colours, the first of a higher magnitude than the last.
C10_Witness ==
  /\ Settled("earthquakes") /\ ~payload["earthquakes"].null
  /\ Len(payload["earthquakes"].body.data.features) > 50
  /\ Len(dom.eq.list) = 50
  /\ \A c \in {"red", "orange", "yellow"} : \E n \in 1..50 : dom.eq.list[n].color = c
  /\ dom.eq.list[1].mag > dom.eq.list[50].mag
  /\ payload["earthquakes"].body.data.features[1].mag.v
       < payload["earthquakes"].body.data.features[2].mag.v

====
